---- MODULE Spec2Model ----
(***************************************************************************)
(* Model of the seller-apis repository: the stock/price reconciliation,    *)
(* value normalisation and batching shared by the Ozon integration         *)
(* (src/seller.py) and the Yandex Market integration (src/market.py), and  *)
(* the two orchestrators (main) that drive them.                           *)
(*                                                                         *)
(* Python strings are sequences of one-character strings, so that str(),   *)
(* int() and price_conversion() are computed character by character.      *)
(* A value read from the feed is a tagged record: t = "str" with the text  *)
(* in s, or t = "int" with the number in n.                                *)
(***************************************************************************)
EXTENDS Integers, Sequences, FiniteSets, TLC

VARIABLES
    pc,              \* "reconcile" or "divide" in Spec, the statement of main that runs next in SpecMain
    campaign,        \* "ozon", "fbs" or "dbs" in a run of main, "none" otherwise
    watch_remnants,  \* the feed
    offer_ids,       \* the catalog identifier list (mutated by create_stocks)
    hist,            \* function-level runs: function, offer_ids passed, outcome
    divided,         \* function-level call of divide: list, n, outcome
    stocks,          \* main: the stock list last built
    prices,          \* main: the price list last built
    batches,         \* main: list(divide(...)) of the upload loop in progress
    sent,            \* main: the update calls of the loop in progress, in order
    trace,           \* main: every network call issued so far, in order
    server,          \* get_offer_ids: the catalog the marketplace is serving
    product_list,    \* get_offer_ids: the items fetched so far
    pages,           \* get_offer_ids: the pages received so far, in order
    fetched          \* main: the list get_offer_ids last returned

\* the frame of get_offer_ids and its result
fetch_vars == <<server, product_list, pages, fetched>>

vars == <<pc, campaign, watch_remnants, offer_ids, hist, divided,
          stocks, prices, batches, sent, trace, server, product_list, pages, fetched>>

----------------------------------------------------------------------------
(* Bounds of the model *)

\* longest feed (number of records of watch_remnants)
MaxFeed == 2
\* longest catalog identifier list (offer_ids)
MaxL == 2
\* longest list handed to divide in the function-level specification
MaxLst == 4
\* largest chunk size handed to divide in the function-level specification
MaxN == 3
\* largest number of items the marketplace puts in one catalog page
MaxPage == 2

----------------------------------------------------------------------------
(* Python values *)

PyStr(chars) == [t |-> "str", n |-> 0, s |-> chars]
PyInt(k) == [t |-> "int", n |-> k, s |-> <<>>]

DigitChars == <<"0", "1", "2", "3", "4", "5", "6", "7", "8", "9">>

IsDigit(c) == \E d \in DOMAIN DigitChars : DigitChars[d] = c

DigitVal(c) == (CHOOSE d \in DOMAIN DigitChars : DigitChars[d] = c) - 1

RECURSIVE NatToStr(_)
NatToStr(k) ==
    IF k < 10 THEN <<DigitChars[k + 1]>>
    ELSE NatToStr(k \div 10) \o <<DigitChars[(k % 10) + 1]>>

\* str(v): a string is itself, an integer is its decimal notation
str(v) ==
    IF v.t = "str" THEN v.s
    ELSE IF v.n < 0 THEN <<"-">> \o NatToStr(0 - v.n) ELSE NatToStr(v.n)

RECURSIVE StripLeft(_)
StripLeft(chars) ==
    IF chars # <<>> /\ Head(chars) = " " THEN StripLeft(Tail(chars)) ELSE chars

RECURSIVE StripRight(_)
StripRight(chars) ==
    IF chars # <<>> /\ chars[Len(chars)] = " "
    THEN StripRight(SubSeq(chars, 1, Len(chars) - 1))
    ELSE chars

RECURSIVE DigitsValue(_)
DigitsValue(chars) ==
    IF chars = <<>> THEN 0
    ELSE 10 * DigitsValue(SubSeq(chars, 1, Len(chars) - 1))
         + DigitVal(chars[Len(chars)])

\* int(v): an integer is itself; a string is stripped of surrounding blanks
\* and must be an optional sign followed by at least one digit, otherwise
\* ValueError (ok = FALSE)
int(v) ==
    IF v.t = "int" THEN [ok |-> TRUE, n |-> v.n]
    ELSE LET body == StripRight(StripLeft(v.s))
             signed == body # <<>> /\ Head(body) \in {"-", "+"}
             digits == IF signed THEN Tail(body) ELSE body
         IN  IF digits # <<>> /\ \A i \in DOMAIN digits : IsDigit(digits[i])
             THEN [ok |-> TRUE,
                   n |-> IF signed /\ Head(body) = "-"
                         THEN 0 - DigitsValue(digits) ELSE DigitsValue(digits)]
             ELSE [ok |-> FALSE, n |-> 0]

\* x in lst
In(x, lst) == \E i \in DOMAIN lst : lst[i] = x

\* lst.remove(x): drops the first occurrence of x (x is in lst)
Remove(lst, x) ==
    LET i == CHOOSE j \in DOMAIN lst :
                 lst[j] = x /\ \A k \in 1..(j - 1) : lst[k] # x
    IN  SubSeq(lst, 1, i - 1) \o SubSeq(lst, i + 1, Len(lst))

\* the outcome of a call: a returned list, or a raised exception
Returned(list) == [ok |-> TRUE, val |-> list]
Raised == [ok |-> FALSE, val |-> <<>>]

----------------------------------------------------------------------------
(* Value normalisation *)

\* price.split(".")[0]: the text before the first "."
RECURSIVE BeforeDot(_)
BeforeDot(chars) ==
    IF chars = <<>> \/ Head(chars) = "." THEN <<>>
    ELSE <<Head(chars)>> \o BeforeDot(Tail(chars))

\* re.sub("[^0-9]", "", price.split(".")[0])
price_conversion(price) == SelectSeq(BeforeDot(price), IsDigit)

\* the quantity of a feed record as a stock count that treats "1" as any
\* other number
stock_count_no_one_rule(watch) ==
    IF str(watch.quantity) = <<">", "1", "0">> THEN [ok |-> TRUE, n |-> 100]
    ELSE int(watch.quantity)

\* the quantity of a feed record as a stock count that swallows the
\* ValueError of int() and reports 0
stock_count_swallow(watch) ==
    LET count == str(watch.quantity)
    IN  IF count = <<">", "1", "0">> THEN [ok |-> TRUE, n |-> 100]
        ELSE IF count = <<"1">> THEN [ok |-> TRUE, n |-> 0]
        ELSE IF int(watch.quantity).ok THEN int(watch.quantity)
        ELSE [ok |-> TRUE, n |-> 0]

\* the quantity of a feed record as a stock count (the if/elif/else of
\* create_stocks); ok = FALSE when int() raises
stock_count(watch) ==
    LET count == str(watch.quantity)
    IN  IF count = <<">", "1", "0">> THEN [ok |-> TRUE, n |-> 100]
        ELSE IF count = <<"1">> THEN [ok |-> TRUE, n |-> 0]
        ELSE int(watch.quantity)

----------------------------------------------------------------------------
(* Reconciliation *)

\* a removal that leaves the list as it was
RemoveNothing(lst, x) == lst

\* offer_ids.remove(code) as create_stocks calls it
remove_offer_id(lst, x) == Remove(lst, x)

\* seller.create_stocks: the first loop from record i on, with the working
\* list ids and the entries acc built so far, then the zero-fill loop.
\* The result carries the list offer_ids is left as (it is mutated in place,
\* also when int() raises half way).
RECURSIVE seller_stocks_loop(_, _, _, _)
seller_stocks_loop(remnants, i, ids, acc) ==
    IF i > Len(remnants)
    THEN [ok |-> TRUE,
          val |-> acc \o [k \in 1..Len(ids) |-> [offer_id |-> ids[k], stock |-> 0]],
          ids |-> ids]
    ELSE LET watch == remnants[i]
             code == str(watch.code)
         IN  IF In(code, ids)
             THEN IF stock_count(watch).ok
                  THEN seller_stocks_loop(
                           remnants, i + 1, remove_offer_id(ids, code),
                           Append(acc, [offer_id |-> code,
                                        stock |-> stock_count(watch).n]))
                  ELSE [ok |-> FALSE, val |-> <<>>, ids |-> ids]
             ELSE seller_stocks_loop(remnants, i + 1, ids, acc)

seller_create_stocks(remnants, ids) == seller_stocks_loop(remnants, 1, ids, <<>>)

\* one entry of the Yandex Market stock list
market_stock_entry(sku, warehouse_id, count, date) ==
    [sku |-> sku, warehouseId |-> warehouse_id,
     items |-> <<[count |-> count, type |-> "FIT", updatedAt |-> date]>>]

\* market.create_stocks, as seller_stocks_loop
RECURSIVE market_stocks_loop(_, _, _, _, _, _)
market_stocks_loop(remnants, i, ids, acc, warehouse_id, date) ==
    IF i > Len(remnants)
    THEN [ok |-> TRUE,
          val |-> acc \o [k \in 1..Len(ids) |->
                              market_stock_entry(ids[k], warehouse_id, 0, date)],
          ids |-> ids]
    ELSE LET watch == remnants[i]
             code == str(watch.code)
         IN  IF In(code, ids)
             THEN IF stock_count(watch).ok
                  THEN market_stocks_loop(
                           remnants, i + 1, remove_offer_id(ids, code),
                           Append(acc, market_stock_entry(
                                           code, warehouse_id,
                                           stock_count(watch).n, date)),
                           warehouse_id, date)
                  ELSE [ok |-> FALSE, val |-> <<>>, ids |-> ids]
             ELSE market_stocks_loop(remnants, i + 1, ids, acc, warehouse_id, date)

market_create_stocks(remnants, ids, warehouse_id, date) ==
    market_stocks_loop(remnants, 1, ids, <<>>, warehouse_id, date)

\* one entry of the Ozon price list
seller_price_entry(watch) ==
    [auto_action_enabled |-> "UNKNOWN", currency_code |-> "RUB",
     offer_id |-> str(watch.code), old_price |-> "0",
     price |-> price_conversion(watch.price)]

\* a price list with an entry for every feed record, listed or not
seller_create_prices_unfiltered(remnants, ids) ==
    Returned([k \in 1..Len(remnants) |-> seller_price_entry(remnants[k])])

RECURSIVE seller_prices_loop(_, _, _, _)
seller_prices_loop(remnants, i, ids, acc) ==
    IF i > Len(remnants) THEN acc
    ELSE IF In(str(remnants[i].code), ids)
         THEN seller_prices_loop(remnants, i + 1, ids,
                                 Append(acc, seller_price_entry(remnants[i])))
         ELSE seller_prices_loop(remnants, i + 1, ids, acc)

\* seller.create_prices: never raises on text prices, leaves offer_ids alone
seller_create_prices(remnants, ids) ==
    Returned(seller_prices_loop(remnants, 1, ids, <<>>))

\* market.create_prices: int(price_conversion(...)) raises ValueError when
\* no digit is left
RECURSIVE market_prices_loop(_, _, _, _)
market_prices_loop(remnants, i, ids, acc) ==
    IF i > Len(remnants) THEN Returned(acc)
    ELSE IF In(str(remnants[i].code), ids)
         THEN LET value == int(PyStr(price_conversion(remnants[i].price)))
              IN  IF value.ok
                  THEN market_prices_loop(
                           remnants, i + 1, ids,
                           Append(acc, [id |-> str(remnants[i].code),
                                        price |-> [value |-> value.n,
                                                   currencyId |-> "RUR"]]))
                  ELSE Raised
         ELSE market_prices_loop(remnants, i + 1, ids, acc)

market_create_prices(remnants, ids) == market_prices_loop(remnants, 1, ids, <<>>)

----------------------------------------------------------------------------
(* Batching *)

\* range(i, stop, step) for step # 0, as the sequence of its values
RECURSIVE PyRange(_, _, _)
PyRange(i, stop, step) ==
    IF step > 0
    THEN IF i < stop THEN <<i>> \o PyRange(i + step, stop, step) ELSE <<>>
    ELSE IF i > stop THEN <<i>> \o PyRange(i + step, stop, step) ELSE <<>>

\* lst[i : j] for 0 <= i
Slice(lst, i, j) ==
    SubSeq(lst, i + 1, IF j < Len(lst) THEN j ELSE Len(lst))

\* one of the two for loops of divide
divide_pass(lst, n) ==
    LET starts == PyRange(0, Len(lst), n)
    IN  [k \in 1..Len(starts) |-> Slice(lst, starts[k], starts[k] + n)]

\* list(divide(lst, n)): range() raises ValueError for a step of 0 when the
\* generator is first advanced; otherwise the chunks of both loops
divide(lst, n) ==
    IF n = 0 THEN Raised
    ELSE Returned(divide_pass(lst, n) \o divide_pass(lst, n))

----------------------------------------------------------------------------
(* Inputs *)

\* bounded sequences over a set
SeqsUpTo(S, n) == UNION {[1..k -> S] : k \in 0..n}

\* the "Код" column: read by pandas as a number or as text
Codes == {PyInt(7), PyStr(<<"8">>)}

\* the identifiers a catalog serves
Ids == {<<"7">>, <<"8">>}

QMany == PyStr(<<">", "1", "0">>)
QOne == PyStr(<<"1">>)
QFive == PyStr(<<"5">>)
QNegative == PyStr(<<"-", "3">>)
QText == PyStr(<<"x">>)

\* the "Количество" column
Quantities == {QMany, QOne, QFive, QNegative, QText}

\* the "Цена" column: "1 2.5" and ".5"
PriceTexts == {<<"1", " ", "2", ".", "5">>, <<".", "5">>}

FeedRecords == [code : Codes, quantity : Quantities, price : PriceTexts]

Feeds == SeqsUpTo(FeedRecords, MaxFeed)

\* what get_offer_ids can return: identifier lists, repeated identifiers
\* included
Catalogs == SeqsUpTo(Ids, MaxL)

\* datetime.utcnow() at the time of a call
Dates == {"T1", "T2"}

Warehouse == "W"

NoCall == [called |-> FALSE, lst |-> <<>>, n |-> 1, res |-> Raised]

----------------------------------------------------------------------------
(* Function-level specification: every reconciliation function is run on a *)
(* feed and a catalog list, and run again on the same list object; divide  *)
(* is run on a list and a chunk size.                                      *)

Init ==
    /\ hist = <<>>
    /\ campaign = "none"
    /\ server = <<>> /\ product_list = <<>> /\ pages = <<>> /\ fetched = <<>>
    /\ stocks = <<>> /\ prices = <<>> /\ batches = <<>>
    /\ sent = <<>> /\ trace = <<>>
    /\ \/ /\ pc = "reconcile"
          /\ watch_remnants \in Feeds
          /\ offer_ids \in Catalogs
          /\ divided = NoCall
       \/ /\ pc = "divide"
          /\ watch_remnants = <<>>
          /\ offer_ids = <<>>
          /\ divided \in {[NoCall EXCEPT !.lst = l] : l \in SeqsUpTo(Ids, MaxLst)}

CanRun(fn) ==
    /\ pc = "reconcile"
    /\ hist = <<>> \/ (Len(hist) = 1 /\ hist[1].fn = fn)

Record(fn, res) ==
    /\ hist' = Append(hist, [fn |-> fn, offer_ids |-> offer_ids,
                             res |-> [ok |-> res.ok, val |-> res.val]])
    /\ UNCHANGED <<pc, campaign, watch_remnants, divided, stocks, prices,
                   batches, sent, trace, fetch_vars>>

CallSellerCreateStocks ==
    /\ CanRun("seller.create_stocks")
    /\ LET res == seller_create_stocks(watch_remnants, offer_ids)
       IN  Record("seller.create_stocks", res) /\ offer_ids' = res.ids

CallMarketCreateStocks ==
    /\ CanRun("market.create_stocks")
    /\ \E date \in Dates :
           LET res == market_create_stocks(watch_remnants, offer_ids, Warehouse, date)
           IN  Record("market.create_stocks", res) /\ offer_ids' = res.ids

CallSellerCreatePrices ==
    /\ CanRun("seller.create_prices")
    /\ Record("seller.create_prices", seller_create_prices(watch_remnants, offer_ids))
    /\ UNCHANGED offer_ids

CallMarketCreatePrices ==
    /\ CanRun("market.create_prices")
    /\ Record("market.create_prices", market_create_prices(watch_remnants, offer_ids))
    /\ UNCHANGED offer_ids

CallDivide ==
    /\ pc = "divide"
    /\ ~divided.called
    /\ \E n \in (0 - 1)..MaxN :
           divided' = [called |-> TRUE, lst |-> divided.lst, n |-> n,
                       res |-> divide(divided.lst, n)]
    /\ UNCHANGED <<pc, campaign, watch_remnants, offer_ids, hist, stocks, prices,
                   batches, sent, trace, fetch_vars>>

Next ==
    \/ CallSellerCreateStocks
    \/ CallMarketCreateStocks
    \/ CallSellerCreatePrices
    \/ CallMarketCreatePrices
    \/ CallDivide

Spec == Init /\ [][Next]_vars

----------------------------------------------------------------------------
(* The orchestrators: main of seller.py (Ozon) and main of market.py        *)
(* (Yandex Market, campaigns FBS then DBS).  Every network call either      *)
(* returns or raises (raise_for_status, timeout, connection error).         *)

\* chunk sizes of the upload loops
OzonStockChunk == 100
OzonPriceChunk == 900
MarketStockChunk == 2000

\* the feeds download_stock returns in a run of main
MainRecords ==
    [code : Codes, quantity : {QFive, QText}, price : {<<"1", " ", "2", ".", "5">>}]
MainFeeds == SeqsUpTo(MainRecords, MaxFeed)

Call(name, ok) == [campaign |-> campaign, call |-> name, ok |-> ok]

\* a network call whose failure is not raised
raise_for_status_ignored(ok, next, handler) == next

\* response.raise_for_status() inside the try of main: the statement that
\* runs after the call
raise_for_status(ok, next, handler) == IF ok THEN next ELSE handler

InitMain ==
    /\ hist = <<>> /\ divided = NoCall
    /\ watch_remnants = <<>> /\ offer_ids = <<>>
    /\ stocks = <<>> /\ prices = <<>> /\ batches = <<>>
    /\ sent = <<>> /\ trace = <<>>
    /\ server = <<>> /\ product_list = <<>> /\ pages = <<>> /\ fetched = <<>>
    /\ \/ campaign = "ozon" /\ pc = "get_offer_ids"
       \/ campaign = "fbs" /\ pc = "download_stock"

\* one catalog item as the marketplace serves it
seller_item(id) == [offer_id |-> id]
market_item(id) == [offer |-> [shopSku |-> id]]

\* the page the marketplace answers with when `from` items of its catalog
\* were served before and this page carries k items: the Ozon result has
\* items, total and last_id (next), the Yandex Market result has
\* offerMappingEntries (items) and paging.nextPageToken (next), which is
\* empty on the last page
get_product_list(catalog, from, k) ==
    [items |-> [j \in 1..k |->
                   IF campaign = "ozon" THEN seller_item(catalog[from + j])
                   ELSE market_item(catalog[from + j])],
     total |-> IF campaign = "ozon" THEN Len(catalog) ELSE 0,
     next |-> IF from + k = Len(catalog) THEN <<>> ELSE NatToStr(from + k)]

\* the numbers of items the next page can carry when rest items are left
PageSizes(rest) ==
    IF rest = 0 THEN {0} ELSE 1..(IF rest < MaxPage THEN rest ELSE MaxPage)

\* a loop test that breaks after every page
break_always(page, list) == TRUE

\* seller.py:74: if total == len(product_list): break
seller_break(page, list) == page.total = Len(list)

\* market.py:138: if not page: break
market_break(page, list) == page.next = <<>>

\* the offer_ids built from product_list, seller.py:76-79 and market.py:140-143
offer_ids_of(list) ==
    [j \in DOMAIN list |->
        IF campaign = "ozon" THEN list[j].offer_id ELSE list[j].offer.shopSku]

\* one iteration of the while loop of get_offer_ids (seller.py:69-75,
\* market.py:134-139), called at seller.py:362, market.py:310 and 319:
\* a page is requested; the request raises, or its items extend
\* product_list and the loop goes on or breaks, and after the break the
\* identifiers of product_list are returned into offer_ids
main_get_offer_ids ==
    /\ pc = "get_offer_ids"
    /\ \E ok \in BOOLEAN :
           /\ trace' = Append(trace, Call("get_product_list", ok))
           /\ IF ok
              THEN \E catalog \in (IF pages = <<>> THEN Catalogs ELSE {server}) :
                   \E k \in PageSizes(Len(catalog) - Len(product_list)) :
                       LET page == get_product_list(catalog, Len(product_list), k)
                           list == product_list \o page.items
                           break == IF campaign = "ozon" THEN seller_break(page, list)
                                    ELSE market_break(page, list)
                       IN  /\ server' = catalog
                           /\ pages' = Append(pages, page)
                           /\ product_list' = list
                           /\ IF break
                              THEN /\ offer_ids' = offer_ids_of(list)
                                   /\ fetched' = offer_ids_of(list)
                                   /\ pc' = raise_for_status(
                                                ok,
                                                IF campaign = "ozon" THEN "download_stock"
                                                ELSE "create_stocks",
                                                "except")
                              ELSE /\ pc' = "get_offer_ids"
                                   /\ UNCHANGED <<offer_ids, fetched>>
              ELSE /\ pc' = raise_for_status(ok, "get_offer_ids", "except")
                   /\ UNCHANGED <<offer_ids, fetch_vars>>
    /\ UNCHANGED <<campaign, watch_remnants, hist, divided, stocks, prices,
                   batches, sent>>

\* watch_remnants = download_stock(): inside the try in seller.py:363,
\* before the try in market.py:307
main_download_stock ==
    /\ pc = "download_stock"
    /\ \E ok \in BOOLEAN :
           /\ trace' = Append(trace, Call("download_stock", ok))
           /\ pc' = raise_for_status(
                        ok,
                        IF campaign = "ozon" THEN "create_stocks" ELSE "get_offer_ids",
                        IF campaign = "ozon" THEN "except" ELSE "uncaught")
           /\ IF ok THEN watch_remnants' \in MainFeeds ELSE UNCHANGED watch_remnants
    /\ UNCHANGED <<campaign, offer_ids, hist, divided, stocks, prices, batches,
                   sent, fetch_vars>>

\* seller.py:365-366: stocks = create_stocks(...), then list(divide(stocks, 100))
seller_main_create_stocks ==
    /\ pc = "create_stocks" /\ campaign = "ozon"
    /\ LET res == seller_create_stocks(watch_remnants, offer_ids)
       IN  /\ offer_ids' = res.ids
           /\ IF res.ok
              THEN /\ stocks' = res.val
                   /\ batches' = divide(res.val, OzonStockChunk).val
                   /\ sent' = <<>>
                   /\ pc' = "update_stocks"
              ELSE /\ pc' = "except"
                   /\ UNCHANGED <<stocks, batches, sent>>
    /\ UNCHANGED <<campaign, watch_remnants, hist, divided, prices, trace, fetch_vars>>

\* market.py:312-313 and 321-322
market_main_create_stocks ==
    /\ pc = "create_stocks" /\ campaign \in {"fbs", "dbs"}
    /\ \E date \in Dates :
           LET res == market_create_stocks(watch_remnants, offer_ids, campaign, date)
           IN  /\ offer_ids' = res.ids
               /\ IF res.ok
                  THEN /\ stocks' = res.val
                       /\ batches' = divide(res.val, MarketStockChunk).val
                       /\ sent' = <<>>
                       /\ pc' = "update_stocks"
                  ELSE /\ pc' = "except"
                       /\ UNCHANGED <<stocks, batches, sent>>
    /\ UNCHANGED <<campaign, watch_remnants, hist, divided, prices, trace, fetch_vars>>

\* one iteration of "for some_stock in ...: update_stocks(some_stock, ...)",
\* seller.py:366-367, market.py:313-314 and 322-323
main_update_stocks ==
    /\ pc = "update_stocks"
    /\ Len(sent) < Len(batches)
    /\ \E ok \in BOOLEAN :
           /\ sent' = Append(sent, [batch |-> batches[Len(sent) + 1], ok |-> ok])
           /\ trace' = Append(trace, Call("update_stocks", ok))
           /\ pc' = raise_for_status(ok, "update_stocks", "except")
    /\ UNCHANGED <<campaign, watch_remnants, offer_ids, hist, divided, stocks,
                   prices, batches, fetch_vars>>

\* seller.py:369-370, once the stock loop is exhausted:
\* prices = create_prices(...), then list(divide(prices, 900))
seller_main_create_prices ==
    /\ pc = "update_stocks" /\ campaign = "ozon"
    /\ Len(sent) = Len(batches)
    /\ LET res == seller_create_prices(watch_remnants, offer_ids)
       IN  /\ prices' = res.val
           /\ batches' = divide(res.val, OzonPriceChunk).val
           /\ sent' = <<>>
           /\ pc' = "update_price"
    /\ UNCHANGED <<campaign, watch_remnants, offer_ids, hist, divided, stocks, trace,
                   fetch_vars>>

\* one iteration of "for some_price in ...: update_price(some_price, ...)",
\* seller.py:370-371
seller_main_update_price ==
    /\ pc = "update_price" /\ campaign = "ozon"
    /\ Len(sent) < Len(batches)
    /\ \E ok \in BOOLEAN :
           /\ sent' = Append(sent, [batch |-> batches[Len(sent) + 1], ok |-> ok])
           /\ trace' = Append(trace, Call("update_price", ok))
           /\ pc' = raise_for_status(ok, "update_price", "except")
    /\ UNCHANGED <<campaign, watch_remnants, offer_ids, hist, divided, stocks,
                   prices, batches, fetch_vars>>

\* seller.py: the price loop is exhausted and main returns
seller_main_return ==
    /\ pc = "update_price" /\ campaign = "ozon"
    /\ Len(sent) = Len(batches)
    /\ pc' = "done"
    /\ UNCHANGED <<campaign, watch_remnants, offer_ids, hist, divided, stocks,
                   prices, batches, sent, trace, fetch_vars>>

\* market.py:316 and 325, once the stock loop is exhausted:
\* upload_prices(...) is an async def called without await or event loop, so
\* the call builds a coroutine object and none of its body runs; main goes on
\* to the DBS campaign (get_offer_ids starts with page = "" and an empty
\* product_list, market.py:132-133), or returns
market_main_upload_prices ==
    /\ pc = "update_stocks" /\ campaign \in {"fbs", "dbs"}
    /\ Len(sent) = Len(batches)
    /\ IF campaign = "fbs"
       THEN /\ campaign' = "dbs" /\ pc' = "get_offer_ids"
            /\ product_list' = <<>> /\ pages' = <<>>
            /\ UNCHANGED <<server, fetched>>
       ELSE /\ campaign' = campaign /\ pc' = "done"
            /\ UNCHANGED fetch_vars
    /\ UNCHANGED <<watch_remnants, offer_ids, hist, divided, stocks, prices,
                   batches, sent, trace>>

\* the except clauses of main print the error; main returns
main_except ==
    /\ pc = "except"
    /\ pc' = "done"
    /\ UNCHANGED <<campaign, watch_remnants, offer_ids, hist, divided, stocks,
                   prices, batches, sent, trace, fetch_vars>>

NextMain ==
    \/ main_get_offer_ids
    \/ main_download_stock
    \/ seller_main_create_stocks
    \/ market_main_create_stocks
    \/ main_update_stocks
    \/ seller_main_create_prices
    \/ seller_main_update_price
    \/ seller_main_return
    \/ market_main_upload_prices
    \/ main_except

SpecMain == InitMain /\ [][NextMain]_vars

\* main is a sequential program that runs until it returns: a page request
\* of get_offer_ids that can be issued is issued
SpecMainFair == SpecMain /\ WF_vars(main_get_offer_ids)

----------------------------------------------------------------------------
(* Reading the recorded runs *)

StockFns == {"seller.create_stocks", "market.create_stocks"}
PriceFns == {"seller.create_prices", "market.create_prices"}

StockRuns == {i \in DOMAIN hist : hist[i].fn \in StockFns}
PriceRuns == {i \in DOMAIN hist : hist[i].fn \in PriceFns}

\* the listing identifier of an output entry
EntryId(fn, e) ==
    IF fn \in {"seller.create_stocks", "seller.create_prices"} THEN e.offer_id
    ELSE IF fn = "market.create_stocks" THEN e.sku
    ELSE e.id

\* the stock count of a stock entry
EntryStock(fn, e) ==
    IF fn = "seller.create_stocks" THEN e.stock ELSE e.items[1].count

NoDup(lst) == \A i, j \in DOMAIN lst : lst[i] = lst[j] => i = j

Elems(lst) == {lst[k] : k \in DOMAIN lst}

\* the quantity texts that are ">10", "1" or an integer
ValidQuantity(q) == q \in {QMany, QOne, QFive, QNegative}

\* the stock a valid quantity text stands for
Normalized(q) ==
    CASE q = QMany -> 100
      [] q = QOne -> 0
      [] q = QFive -> 5
      [] q = QNegative -> 0 - 3

\* the feed records with the given stringified code
Referencing(id) == {k \in DOMAIN watch_remnants : str(watch_remnants[k].code) = id}

First(S) == CHOOSE k \in S : \A m \in S : k <= m

----------------------------------------------------------------------------
(* Claims *)

StockValues(h) ==
    \A j \in DOMAIN h.res.val :
        LET id == EntryId(h.fn, h.res.val[j])
            stock == EntryStock(h.fn, h.res.val[j])
        IN  IF Referencing(id) = {} THEN stock = 0
            ELSE stock = Normalized(watch_remnants[First(Referencing(id))].quantity)

RECURSIVE Concat(_)
Concat(chunks) ==
    IF chunks = <<>> THEN <<>> ELSE Head(chunks) \o Concat(Tail(chunks))

C3_Partition ==
    (divided.called /\ divided.lst # <<>> /\ divided.n > 0) =>
        /\ divided.res.ok
        /\ Len(divided.res.val) = (Len(divided.lst) + divided.n - 1) \div divided.n
        /\ \A k \in DOMAIN divided.res.val : Len(divided.res.val[k]) <= divided.n
        /\ Concat(divided.res.val) = divided.lst

\* the stringified codes of the feed records that are in L, in feed order
ListedCodes(L) ==
    SelectSeq([k \in DOMAIN watch_remnants |-> str(watch_remnants[k].code)],
              LAMBDA c : c \in Elems(L))

C5_StockNonNegative ==
    \A i \in StockRuns :
        (hist[i].res.ok /\ \A k \in DOMAIN watch_remnants :
                               ValidQuantity(watch_remnants[k].quantity)) =>
            \A j \in DOMAIN hist[i].res.val :
                EntryStock(hist[i].fn, hist[i].res.val[j]) >= 0

\* C6: every price entry of a returned price list carries a value that
\* denotes a non-negative integer: a non-empty digit string on Ozon, a
\* natural number on Yandex Market.
C6_PriceIsNatural ==
    \A i \in PriceRuns :
        hist[i].res.ok =>
            \A j \in DOMAIN hist[i].res.val :
                LET e == hist[i].res.val[j]
                IN  IF hist[i].fn = "seller.create_prices"
                    THEN e.price # <<>> /\ \A k \in DOMAIN e.price : IsDigit(e.price[k])
                    ELSE e.price.value \in Nat

EarlierSameCode(k) ==
    {m \in 1..(k - 1) : str(watch_remnants[m].code) = str(watch_remnants[k].code)}

Occurrences(id, L) == Cardinality({m \in DOMAIN L : L[m] = id})

C8_DivideRejectsNonPositive ==
    (divided.called /\ divided.n <= 0) => ~divided.res.ok

\* a result with its timestamp fields blanked
NoTimestamps(fn, res) ==
    IF fn = "market.create_stocks"
    THEN [ok |-> res.ok,
          val |-> [j \in DOMAIN res.val |->
                      [sku |-> res.val[j].sku,
                       warehouseId |-> res.val[j].warehouseId,
                       count |-> res.val[j].items[1].count,
                       type |-> res.val[j].items[1].type]]]
    ELSE res

\* C10: a second run of a reconciliation function with the same feed and
\* the same identifier collection returns what the first run returned,
\* timestamps aside.
C10_Idempotent ==
    \A i, j \in DOMAIN hist :
        (i < j /\ hist[i].fn = hist[j].fn) =>
            NoTimestamps(hist[i].fn, hist[i].res) = NoTimestamps(hist[j].fn, hist[j].res)


AllCallsOk == \A k \in DOMAIN trace : trace[k].ok

\* the entries of the update calls of the loop in progress, in order
Uploaded == Concat([k \in DOMAIN sent |-> sent[k].batch])

\* C11: in a run of the Ozon main whose price loop has issued all its
\* update calls, the uploaded price batches hold an entry for every feed
\* record whose stringified code is in the catalog get_offer_ids returned
\* at the start of the run.
C11_OzonPriceCoverage ==
    (campaign = "ozon" /\ pc = "update_price" /\ Len(sent) = Len(batches)
     /\ AllCallsOk) =>
        \A k \in DOMAIN watch_remnants :
            str(watch_remnants[k].code) \in Elems(fetched) =>
                \E j \in DOMAIN Uploaded :
                    Uploaded[j].offer_id = str(watch_remnants[k].code)

\* the price batches upload_prices would build for the campaign whose
\* catalog was last fetched
MarketPriceList == market_create_prices(watch_remnants, fetched)

\* C12: when the Yandex Market main has finished, every call has returned,
\* the stock list of the last campaign (DBS) was built and all its update
\* calls were issued, and the campaign has a non-empty price list, then a
\* price update call of that campaign was issued.
C12_MarketPriceUpload ==
    (campaign = "dbs" /\ pc = "done" /\ AllCallsOk
     /\ stocks # <<>> /\ stocks[1].warehouseId = "dbs"
     /\ Len(sent) = Len(batches)
     /\ MarketPriceList.ok /\ MarketPriceList.val # <<>>) =>
        \E k \in DOMAIN trace :
            trace[k].campaign = "dbs" /\ trace[k].call = "update_price"

\* C13: when the Yandex Market main has finished and a catalog or stock
\* update call of the FBS campaign failed, the catalog of the DBS campaign
\* was still requested.
C13_CampaignIsolation ==
    (pc = "done"
     /\ \E k \in DOMAIN trace :
            /\ trace[k].campaign = "fbs"
            /\ trace[k].call \in {"get_product_list", "update_stocks"}
            /\ ~trace[k].ok) =>
        \E j \in DOMAIN trace :
            trace[j].campaign = "dbs" /\ trace[j].call = "get_product_list"

\* the items fetched in the first j page requests of the fetch in progress
FetchedUpTo(j) == Concat([k \in 1..j |-> pages[k].items])

\* the stop condition of the marketplace's fetcher at its j-th page: the
\* next-page token is empty (Yandex Market), the running count of fetched
\* items equals the reported total (Ozon)
StopsAt(j) ==
    IF campaign = "ozon" THEN pages[j].total = Len(FetchedUpTo(j))
    ELSE pages[j].next = <<>>

\* the catalog requests of the current campaign, as positions of trace
PageRequests ==
    {k \in DOMAIN trace :
        trace[k].campaign = campaign /\ trace[k].call = "get_product_list"}

\* the last catalog request of the current campaign was answered
LastPageOk ==
    /\ PageRequests # {}
    /\ \E k \in PageRequests : trace[k].ok /\ \A m \in PageRequests : m <= k

\* get_offer_ids has returned its list to main
FetchReturned == pc # "get_offer_ids" /\ LastPageOk

FetchStops ==
    /\ \A j \in DOMAIN pages : StopsAt(j) => j = Len(pages)
    /\ pc = "get_offer_ids" => \A j \in DOMAIN pages : ~StopsAt(j)
    /\ FetchReturned =>
           /\ pages # <<>> /\ StopsAt(Len(pages))
           /\ fetched = offer_ids_of(FetchedUpTo(Len(pages)))
           /\ Cardinality({k \in PageRequests : trace[k].ok}) = Len(pages)

\* C14: while a finite catalog is served in pages, the fetcher of either
\* marketplace leaves its page loop (it returns, or a request raises); no
\* page before the last one met the marketplace's stop condition, the loop
\* goes on only while no page met it, and when the fetcher has returned the
\* last page met it, exactly the recorded pages were requested, and the
\* returned list is the identifiers of all fetched items in fetch order.
C14_FetchTerminates ==
    /\ []FetchStops
    /\ (pc = "get_offer_ids") ~> (pc # "get_offer_ids")

\* a fetch that needed more than one page has returned
C14_Witness ==
    /\ FetchReturned
    /\ Len(pages) >= 2
    /\ Len(fetched) >= 2
    /\ StopsAt(Len(pages))

====
